---- MODULE Spec2Model ----
(***************************************************************************)
(* rustmanager: the SystemMonitor application of src/main.rs.              *)
(*                                                                         *)
(* State: the fields of struct SystemMonitor, the operating system the     *)
(* sysinfo handle samples (its process table), the export file and the     *)
(* console.  One action per Message variant of SystemMonitor::update; the  *)
(* iced runtime rebuilds the view after every update, so every action ends *)
(* with the view() call.                                                   *)
(*                                                                         *)
(* Numbers.  f32 CPU percentages are written in hundredths of a percent    *)
(* (12.5 % is 1250); the f32 value NaN is the number NaN below.  A memory  *)
(* size in MB held in an f64 (bytes as f64 / 1000000.0) is written as its  *)
(* byte count, i.e. in units of 10^-6 MB: for byte counts below 2^53       *)
(* distinct counts give distinct f64 quotients.  An f32 holding a memory   *)
(* size is the pair <<m, s>> of its 24-bit significand and binary scale,   *)
(* of value m / 2^s MB.  Text is a sequence of one-character strings.      *)
(***************************************************************************)
EXTENDS Integers, Sequences, FiniteSets, TLC

\* ---------------------------------------------------------------- bounds
\* Number of Tick messages a behaviour processes.
MaxTicks == 2

\* ------------------------------------------------------ program constants
\* vec![0.0; 100] and the two `len() > 100` tests of Message::Tick.
Capacity == 100
\* processes.iter().take(30) of main_view.
TopK == 30

\* f32::NAN: no percentage is negative, and every operator on an f32 tests
\* for NaN before it computes.
NaN == 0 - 1
\* process_snapshot.csv before any export: missing, or left by an earlier run.
NoFile == [exists |-> FALSE, lines |-> <<>>]
OldFile == [exists |-> TRUE, lines |-> << <<"o", "l", "d", "\n">> >>]

\* ------------------------------------------------------------ input sets
\* What one refresh reads: global_cpu_info().cpu_usage() (hundredths of a
\* percent) and used_memory() (bytes).
GlobalSamples == {[cpu |-> 1250, mem |-> 16777217], [cpu |-> 9000, mem |-> 1500000]}
\* Values cpus().len() takes; fixed for the lifetime of the process.
CoreCounts == {4}
\* Pids an EndTask message carries; 9 is never the pid of a process.
PidInputs == {1, 9}

Proc(p, n, c, m) == [pid |-> p, name |-> n, cpu |-> c, mem |-> m]

\* More processes than the view shows.
BigTable == [i \in 1..(TopK + 1) |->
               Proc(100 + i, <<"k">>, IF i > TopK - 1 THEN 8000 ELSE 4000 - 100 * i,
                    1000000 * i + 1)]

\* Process tables of the operating system, in the iteration order of
\* processes().values().  Raw CPU is in hundredths of a percent.
ProcTables ==
  { << Proc(1, <<"a", ",", "b">>, 1000, 2500001),
       Proc(2, <<"s", "h">>, 5000, 12345678),
       Proc(3, <<",", "x", ",", ",">>, 5000, 999),
       Proc(4, <<"i", "d", "l", "e">>, 500, 0) >>,
    << Proc(2, <<"s", "h">>, NaN, 12345678),
       Proc(1, <<"a", ",", "b">>, 1000, 2500001) >>,
    << Proc(1, <<"n", ",">>, NaN, 4096) >>,
    << Proc(3, <<"x">>, 20000, 777777) >>,
    BigTable }

VARIABLES
  system,          \* the sysinfo System handle: what the last refresh stored
  cpu_usage,       \* f32
  memory_usage_mb, \* f64
  screen,          \* Screen::Main | Screen::Graph
  cpu_history,     \* Vec<f32>
  memory_history,  \* Vec<f32>
  current_theme,   \* Theme::Light | Theme::Dark
  os,              \* the live process table of the operating system
  file,            \* process_snapshot.csv: whether it exists, and its lines
  console,         \* what the last ExportCSV printed: "none" | "ok" | "err"
  signal,          \* outcome of the last EndTask: "none" | "absent" | "killed" | "failed"
  ticks,           \* number of Tick messages processed
  pc               \* "Idle" | "Crashed" (a panic unwound the application)

vars == <<system, cpu_usage, memory_usage_mb, screen, cpu_history,
          memory_history, current_theme, os, file, console, signal, ticks, pc>>

\* ------------------------------------------------------------- f32 / f64
IsNaN(x) == x = NaN

\* 10^6 = 2^6 * 15625.
FiveToSix == 15625
TwoTo23 == 8388608

\* Binary long division of bytes / 10^6: doubles the quotient q (remainder r,
\* scale s) until it has 24 significant bits.
RECURSIVE Normalize(_, _, _)
Normalize(q, r, s) ==
  IF q >= TwoTo23 THEN <<q, r, s>>
  ELSE Normalize(2 * q + ((2 * r) \div FiveToSix), (2 * r) % FiveToSix, s + 1)

\* `memory_usage_mb as f32`: the f64 bytes / 10^6 rounded to the nearest f32
\* (24-bit significand).  The remainder is never half of the odd divisor, so
\* no tie arises.  Defined for 0 <= bytes < 2^31.
AsF32(bytes) ==
  IF bytes = 0 THEN <<0, 0>>
  ELSE LET n == Normalize(bytes \div FiveToSix, bytes % FiveToSix, 6)
           m == IF 2 * n[2] > FiveToSix THEN n[1] + 1 ELSE n[1]
       IN  IF m = 2 * TwoTo23 THEN <<TwoTo23, n[3] - 1>> ELSE <<m, n[3]>>

\* `used_memory() as f64 / 1000000.0`, in units of 10^-6 MB.
ToMB(bytes) == bytes

\* ------------------------------------------------------------ formatting
DigitChars == <<"0", "1", "2", "3", "4", "5", "6", "7", "8", "9">>

RECURSIVE Digits(_)
Digits(n) ==
  IF n < 10 THEN <<DigitChars[n + 1]>>
  ELSE Digits(n \div 10) \o <<DigitChars[(n % 10) + 1]>>

\* A non-negative number of hundredths as "{:.2}" prints it.
Hundredths(h) ==
  Digits(h \div 100) \o <<".", DigitChars[((h % 100) \div 10) + 1],
                          DigitChars[(h % 10) + 1]>>

\* format!("{:.2}", process.cpu_usage() / cpu_count): n / d to the nearest
\* hundredth; NaN prints as NaN.
FormatCpu(raw, cpu_count) ==
  IF IsNaN(raw) THEN <<"N", "a", "N">>
  ELSE Hundredths((2 * raw + cpu_count) \div (2 * cpu_count))

\* format!("{:.2}", process.memory() as f64 / 1000000.0): bytes / 10^6 to
\* the nearest hundredth (the sampled sizes are never halfway).
FormatMem(bytes) == Hundredths((bytes + 5000) \div 10000)

\* ---------------------------------------------------------------- ranking
\* Insertion of x behind every element that does not compare Less than it
\* under the comparator (descending by cpu, equal elements keep their order).
RECURSIVE Insert(_, _)
Insert(sorted, x) ==
  IF sorted = <<>> THEN <<x>>
  ELSE LET last == sorted[Len(sorted)]
       IN  IF last.cpu >= x.cpu THEN Append(sorted, x)
           ELSE Append(Insert(SubSeq(sorted, 1, Len(sorted) - 1), x), last)

RECURSIVE InsertionSort(_)
InsertionSort(s) ==
  IF s = <<>> THEN <<>>
  ELSE Insert(InsertionSort(SubSeq(s, 1, Len(s) - 1)), s[Len(s)])

\* b.cpu_usage().partial_cmp(&a.cpu_usage()).unwrap() inside sort_by:
\* partial_cmp is None when either side is NaN, and unwrap() then panics.
\* With two or more elements every element takes part in a comparison.
sort_panics(procs) ==
  Len(procs) >= 2 /\ \E i \in 1..Len(procs) : IsNaN(procs[i].cpu)

\* processes.sort_by(|a, b| b.cpu_usage().partial_cmp(&a.cpu_usage()).unwrap())
\* when it returns: a stable sort, descending by cpu_usage().
sort_by(procs) == InsertionSort(procs)

\* ----------------------------------------------------------------- export
\* process.name().replace(",", ".")
\* Variant: replacen(",", ".", 1), only the first comma is replaced.
RECURSIVE sanitize_first(_)
sanitize_first(name) ==
  IF name = <<>> THEN <<>>
  ELSE IF Head(name) = "," THEN <<".">> \o Tail(name)
       ELSE <<Head(name)>> \o sanitize_first(Tail(name))

RECURSIVE sanitize(_)
sanitize(name) ==
  IF name = <<>> THEN <<>>
  ELSE <<IF Head(name) = "," THEN "." ELSE Head(name)>> \o sanitize(Tail(name))

Header == <<"Process_Name", ",", "Normalized_CPU_Percent", ",",
            "Memory_Usage_MB", "\n">>

\* format!("{}, {:.2}, {:.2}\n", sanitized_name, normalized_cpu_usage, mem_mb)
Record(p, cpu_count) ==
  sanitize(p.name) \o <<",", " ">> \o FormatCpu(p.cpu, cpu_count)
                   \o <<",", " ">> \o FormatMem(p.mem) \o <<"\n">>

\* csv_data: the header line, then one line per element of `processes`.
CsvData(processes, cpu_count) ==
  <<Header>> \o [i \in 1..Len(processes) |-> Record(processes[i], cpu_count)]

\* Variant: the file opened in append mode, data written behind what it held.
fs_append(old, data) == [exists |-> TRUE, lines |-> old.lines \o data]

\* fs::write(path, data) that succeeds: the file holds data and nothing else.
fs_write(old, data) == [exists |-> TRUE, lines |-> data]

\* What a failed fs::write can leave: the file as it was, or created/truncated.
FailedWrite(old) == {old, [exists |-> TRUE, lines |-> <<>>]}

\* ---------------------------------------------------------------- history
\* Variant: the push without the eviction.
push_only(history, v) == Append(history, v)

\* Variant: insert(0, v) and pop(): the series runs newest-first.
push_front(history, v) ==
  LET pushed == <<v>> \o history
  IN  IF Len(pushed) > Capacity THEN SubSeq(pushed, 1, Capacity) ELSE pushed

\* Variant: the eviction takes the newest element, pop(), not the oldest.
push_pop(history, v) ==
  LET pushed == Append(history, v)
  IN  IF Len(pushed) > Capacity THEN SubSeq(pushed, 1, Capacity) ELSE pushed

\* self.cpu_history.push(v); if self.cpu_history.len() > 100 { remove(0); }
push_evict(history, v) ==
  LET pushed == Append(history, v)
  IN  IF Len(pushed) > Capacity THEN Tail(pushed) ELSE pushed

\* ---------------------------------------------------------------- sampler
\* Variant: refresh_cpu() and refresh_memory() only, the process list kept.
refresh_cpu_memory(sys, table, cpu, mem, gen) ==
  [sys EXCEPT !.global_cpu = cpu, !.cpuGen = gen,
              !.used_memory = mem, !.memGen = gen]

\* system.refresh_all(): processes, global CPU and memory all re-read; gen
\* names the sampling each part comes from.
refresh_all(sys, table, cpu, mem, gen) ==
  [sys EXCEPT !.procs = table, !.procsGen = gen,
              !.global_cpu = cpu, !.cpuGen = gen,
              !.used_memory = mem, !.memGen = gen]

\* self.system.process(pid)
HasProcess(sys, pid) == \E i \in 1..Len(sys.procs) : sys.procs[i].pid = pid

Alive(table, pid) == \E i \in 1..Len(table) : table[i].pid = pid

RECURSIVE Without(_, _)
Without(table, pid) ==
  IF table = <<>> THEN <<>>
  ELSE IF Head(table).pid = pid THEN Without(Tail(table), pid)
       ELSE <<Head(table)>> \o Without(Tail(table), pid)

\* ------------------------------------------------------------------- view
\* view(): main_view sorts the process list (and panics as sort_by does);
\* graph_view does not read it.
view(sys, scr) ==
  IF scr = "Main" /\ sort_panics(sys.procs) THEN "Crashed" ELSE "Idle"

Zeros == [i \in 1..Capacity |-> 0]
ZerosF32 == [i \in 1..Capacity |-> <<0, 0>>]

\* SystemMonitor::new, then the first view().
Init ==
  /\ \E t \in ProcTables, g \in GlobalSamples, n \in CoreCounts :
       /\ os = t
       /\ system = [procs |-> t, procsGen |-> 0, global_cpu |-> g.cpu, cpuGen |-> 0,
                    used_memory |-> g.mem, memGen |-> 0, cpus |-> n]
       /\ pc = view([procs |-> t], "Main")
  /\ cpu_usage = 0
  /\ memory_usage_mb = 0
  /\ current_theme = "Dark"
  /\ screen = "Main"
  /\ cpu_history = Zeros
  /\ memory_history = ZerosF32
  /\ file \in {NoFile, OldFile}
  /\ console = "none"
  /\ signal = "none"
  /\ ticks = 0

\* Message::Tick
Tick ==
  /\ pc = "Idle"
  /\ ticks < MaxTicks
  /\ \E g \in GlobalSamples :
       /\ system' = refresh_all(system, os, g.cpu, g.mem, ticks + 1)
       /\ cpu_usage' = system'.global_cpu
       /\ memory_usage_mb' = ToMB(system'.used_memory)
       /\ cpu_history' = push_evict(cpu_history, cpu_usage')
       /\ memory_history' = push_evict(memory_history, AsF32(memory_usage_mb'))
  /\ ticks' = ticks + 1
  /\ pc' = view(system', screen)
  /\ UNCHANGED <<screen, current_theme, os, file, console, signal>>

\* Message::GoToGraph
GoToGraph ==
  /\ pc = "Idle"
  /\ screen' = "Graph"
  /\ pc' = view(system, screen')
  /\ UNCHANGED <<system, cpu_usage, memory_usage_mb, cpu_history, memory_history,
                 current_theme, os, file, console, signal, ticks>>

\* Message::BackToMain
BackToMain ==
  /\ pc = "Idle"
  /\ screen' = "Main"
  /\ pc' = view(system, screen')
  /\ UNCHANGED <<system, cpu_usage, memory_usage_mb, cpu_history, memory_history,
                 current_theme, os, file, console, signal, ticks>>

\* Message::ThemeChanged(theme)
ThemeChanged(theme) ==
  /\ pc = "Idle"
  /\ current_theme' = theme
  /\ pc' = view(system, screen)
  /\ UNCHANGED <<system, cpu_usage, memory_usage_mb, cpu_history, memory_history,
                 screen, os, file, console, signal, ticks>>

\* Variant: self.system.process(pid).unwrap().kill(), a panic on a pid the
\* snapshot does not hold.
EndTask_unwrap(pid) ==
  /\ pc = "Idle"
  /\ IF ~HasProcess(system, pid)
       THEN signal' = "absent" /\ os' = os /\ pc' = "Crashed"
       ELSE /\ IF ~Alive(os, pid)
                 THEN signal' = "failed" /\ os' = os
                 ELSE \/ signal' = "killed" /\ os' = Without(os, pid)
                      \/ signal' = "failed" /\ os' = os
            /\ pc' = view(system, screen)
  /\ UNCHANGED <<system, cpu_usage, memory_usage_mb, cpu_history, memory_history,
                 screen, current_theme, file, console, ticks>>

\* Message::EndTask(pid): if let Some(p) = self.system.process(pid) { p.kill(); }
\* kill() signals the live process of that pid, if any; its bool is dropped.
EndTask(pid) ==
  /\ pc = "Idle"
  /\ IF ~HasProcess(system, pid)
       THEN signal' = "absent" /\ os' = os
       ELSE IF ~Alive(os, pid)
              THEN signal' = "failed" /\ os' = os
              ELSE \/ signal' = "killed" /\ os' = Without(os, pid)
                   \/ signal' = "failed" /\ os' = os
  /\ pc' = view(system, screen)
  /\ UNCHANGED <<system, cpu_usage, memory_usage_mb, cpu_history, memory_history,
                 screen, current_theme, file, console, ticks>>

\* Variant: fs::write(..).unwrap(), a panic on a failed write.
ExportCSV_unwrap ==
  /\ pc = "Idle"
  /\ UNCHANGED <<system, cpu_usage, memory_usage_mb, cpu_history, memory_history,
                 screen, current_theme, os, signal, ticks>>
  /\ IF sort_panics(system.procs)
       THEN /\ pc' = "Crashed"
            /\ UNCHANGED <<file, console>>
       ELSE LET processes == sort_by(system.procs)
            IN  \/ /\ file' = fs_write(file, CsvData(processes, system.cpus))
                   /\ console' = "ok"
                   /\ pc' = view(system, screen)
                \/ /\ file' \in FailedWrite(file)
                   /\ console' = "err"
                   /\ pc' = "Crashed"

\* Message::ExportCSV
ExportCSV ==
  /\ pc = "Idle"
  /\ UNCHANGED <<system, cpu_usage, memory_usage_mb, cpu_history, memory_history,
                 screen, current_theme, os, signal, ticks>>
  /\ IF sort_panics(system.procs)
       THEN /\ pc' = "Crashed"
            /\ UNCHANGED <<file, console>>
       ELSE /\ LET processes == sort_by(system.procs)
               IN  \/ /\ file' = fs_write(file, CsvData(processes, system.cpus))
                      /\ console' = "ok"
                   \/ /\ file' \in FailedWrite(file)
                      /\ console' = "err"
            /\ pc' = view(system, screen)

\* The operating system: processes start and exit between messages.
OsChange ==
  /\ pc = "Idle"
  /\ os' \in ProcTables
  /\ UNCHANGED <<system, cpu_usage, memory_usage_mb, cpu_history, memory_history,
                 screen, current_theme, file, console, signal, ticks, pc>>

Next ==
  \/ Tick
  \/ GoToGraph
  \/ BackToMain
  \/ \E theme \in {"Light", "Dark"} : ThemeChanged(theme)
  \/ \E pid \in PidInputs : EndTask(pid)
  \/ ExportCSV
  \/ OsChange

Spec == Init /\ [][Next]_vars

\* ----------------------------------------------------------------- claims
Last(h) == h[Len(h)]

\* C1: in every reachable state cpu_history and memory_history hold exactly
\* 100 samples.
C1_HistoryLengthIsCapacity ==
  Len(cpu_history) = Capacity /\ Len(memory_history) = Capacity

C1_Witness ==
  /\ ticks >= 2
  /\ Len(cpu_history) = Capacity
  /\ cpu_history[Capacity - 1] # 0
  /\ cpu_history[Capacity] # 0

\* C2: a Tick that samples global CPU V and memory M turns a full
\* cpu_history [a0, a1, ..., a99] into [a1, ..., a99, V] and memory_history
\* into its own tail followed by M in MB (as the f32 the buffer holds).
C2_TickShiftsHistory ==
  [][ticks' # ticks =>
       /\ Len(cpu_history) = Capacity
       /\ Len(memory_history) = Capacity
       /\ cpu_history' = [i \in 1..Capacity |->
                            IF i < Capacity THEN cpu_history[i + 1]
                            ELSE system'.global_cpu]
       /\ memory_history' = [i \in 1..Capacity |->
                               IF i < Capacity THEN memory_history[i + 1]
                               ELSE AsF32(ToMB(system'.used_memory))]]_vars

\* The first Tick, sampling 12.5 %: 99 zeros, then 12.5.
C2_Witness ==
  /\ ticks = 1
  /\ cpu_history = [i \in 1..Capacity |-> IF i < Capacity THEN 0 ELSE 1250]

\* C3: EndTask(pid) for a pid the snapshot does not hold, or whose process
\* the operating system no longer runs, changes nothing: no crash, nothing
\* printed, and the snapshot, current values, histories and the operating
\* system's processes stay as they were.
C3_EndTaskMissingIsNoOp ==
  [][\A pid \in PidInputs :
       (EndTask(pid) /\ (~HasProcess(system, pid) \/ ~Alive(os, pid))) =>
         /\ pc' = "Idle"
         /\ signal' \in {"absent", "failed"}
         /\ UNCHANGED <<system, cpu_usage, memory_usage_mb, cpu_history,
                        memory_history, os, console, file>>]_vars

\* EndTask on a pid that was never in the snapshot, after a Tick.
C3_Witness ==
  /\ signal = "absent"
  /\ ~HasProcess(system, 9)
  /\ ticks >= 1
  /\ pc = "Idle"

\* C4: ExportCSV leaves cpu_history, memory_history, cpu_usage,
\* memory_usage_mb and the snapshot as they were, whether the write succeeds
\* or fails; a failed write is reported and the application stays Idle.
C4_ExportLeavesStateAlone ==
  [][ExportCSV =>
       /\ UNCHANGED <<system, cpu_usage, memory_usage_mb, cpu_history,
                      memory_history>>
       /\ ~sort_panics(system.procs) =>
            /\ pc' = "Idle"
            /\ console' \in {"ok", "err"}
            /\ (file' # fs_write(file, CsvData(sort_by(system.procs), system.cpus))
                  => console' = "err")]_vars

\* A failed export after a Tick, the application still Idle.
C4_Witness ==
  /\ console = "err"
  /\ file = [exists |-> TRUE, lines |-> <<>>]
  /\ ticks >= 1
  /\ pc = "Idle"

\* C5: no outcome of a Tick, ExportCSV or EndTask is fatal: every message
\* processed leaves the application Idle, ready for the next Tick.
C5_NeverCrashed == [][pc' = "Idle"]_vars

\* The position in the input of the process of pid p.
PosOf(procs, p) == CHOOSE i \in 1..Len(procs) : procs[i].pid = p

\* ranked is all of procs, each once, descending by raw CPU, equal raw CPU in
\* input order.
StableDescending(procs, ranked) ==
  /\ Len(ranked) = Len(procs)
  /\ \A i \in 1..Len(procs) : \E j \in 1..Len(ranked) : ranked[j] = procs[i]
  /\ \A i, j \in 1..Len(ranked) :
       i < j => /\ ~IsNaN(ranked[i].cpu) /\ ~IsNaN(ranked[j].cpu)
                /\ ranked[i].cpu >= ranked[j].cpu
                /\ (ranked[i].cpu = ranked[j].cpu =>
                      PosOf(procs, ranked[i].pid) < PosOf(procs, ranked[j].pid))

\* C6: ranking the snapshot's process list, for the export and for the view,
\* returns the whole list, descending by raw CPU percent, ties in input order.
C6_RankingIsStablePermutation ==
  pc = "Idle" =>
    /\ ~sort_panics(system.procs)
    /\ StableDescending(system.procs, sort_by(system.procs))

\* C7: whenever a command can be processed, the process list, the global CPU
\* and the global memory of the snapshot it reads all come from the latest
\* sampling: the one of the latest Tick, or of construction before any Tick.
C7_CommandsSeeLatestSnapshot ==
  pc = "Idle" =>
    /\ system.procsGen = ticks
    /\ system.cpuGen = ticks
    /\ system.memGen = ticks

\* An export of the snapshot of the second Tick.
C7_Witness ==
  /\ ticks >= 2
  /\ console = "ok"
  /\ pc = "Idle"
  /\ ~sort_panics(system.procs)
  /\ file.lines = CsvData(sort_by(system.procs), system.cpus)
  /\ system.procsGen = ticks

\* C8: a successful ExportCSV leaves in the file the header line and then one
\* record per process of the snapshot, all of them, in ranked order, whatever
\* the file held before.
C8_ExportOverwritesWithAllProcesses ==
  [][(console' = "ok" /\ ~sort_panics(system.procs) /\ ExportCSV) =>
       LET ranked == sort_by(system.procs)
       IN  /\ file'.exists
           /\ Len(file'.lines) = Len(system.procs) + 1
           /\ file'.lines[1] = Header
           /\ \A i \in 1..Len(system.procs) :
                file'.lines[i + 1] = Record(ranked[i], system.cpus)]_vars

\* An export of more processes than the view shows.
C8_Witness ==
  /\ console = "ok"
  /\ Len(system.procs) > TopK
  /\ Len(file.lines) = Len(system.procs) + 1
  /\ pc = "Idle"

\* The number of commas of a line.
RECURSIVE Commas(_)
Commas(line) ==
  IF line = <<>> THEN 0
  ELSE (IF Head(line) = "," THEN 1 ELSE 0) + Commas(Tail(line))

\* C9: in every record a successful ExportCSV writes, the name field is the
\* process name with each comma replaced by a period and every other
\* character kept, and the record has two commas: three fields.
C9_ExportedNameHasNoComma ==
  [][(console' = "ok" /\ ~sort_panics(system.procs) /\ ExportCSV) =>
       LET ranked == sort_by(system.procs)
       IN  \A i \in 1..Len(system.procs) :
             LET p == ranked[i]
                 line == file'.lines[i + 1]
             IN  /\ Len(line) > Len(p.name)
                 /\ \A k \in 1..Len(p.name) :
                      line[k] = IF p.name[k] = "," THEN "." ELSE p.name[k]
                 /\ line[Len(p.name) + 1] = ","
                 /\ Commas(line) = 2]_vars

\* The export of the process named `a,b` and of the one named `,x,,`.
C9_Witness ==
  /\ console = "ok"
  /\ \E i \in 1..Len(file.lines) :
       SubSeq(file.lines[i], 1, 4) = <<"a", ".", "b", ",">>
  /\ \E i \in 1..Len(file.lines) :
       SubSeq(file.lines[i], 1, 5) = <<".", "x", ".", ".", ",">>

\* C10: the newest sample of each history is the current value shown (the
\* memory one as the f32 the chart gets), the histories have equal length,
\* and only a Tick changes the current values or the histories.
C10_NewestSampleIsCurrent ==
  /\ [](/\ Last(cpu_history) = cpu_usage
        /\ Last(memory_history) = AsF32(memory_usage_mb)
        /\ Len(cpu_history) = Len(memory_history))
  /\ [][ticks' = ticks =>
          UNCHANGED <<cpu_usage, memory_usage_mb, cpu_history, memory_history>>]_vars

\* The graph screen after two Ticks of different samples.
C10_Witness ==
  /\ screen = "Graph"
  /\ ticks >= 2
  /\ Last(cpu_history) = cpu_usage
  /\ cpu_history[Capacity - 1] # cpu_usage
  /\ cpu_usage # 0

====
